---- MODULE Spec2Model ----
(***************************************************************************)
(* Model of bot/exts/utils/snekbox.py: the Snekbox cog.                    *)
(*                                                                         *)
(*  - Texts are run-length encoded: a text is a sequence of runs           *)
(*    [c |-> token, n |-> count], kept in normal form (adjacent runs have  *)
(*    different tokens, every count is >= 1).  A token is one character,   *)
(*    or a fixed literal of the source (a marker, a placeholder) whose     *)
(*    width is its length.  This keeps the real limits (1000 characters,   *)
(*    10000 characters, 11 lines) computable.                              *)
(*  - Spec       : the eval sessions (run_eval / send_eval / continue_eval)*)
(*                 of several commands sharing the registry self.jobs.     *)
(*  - SpecFormat : format_output / format_timeit_output applied to         *)
(*                 bounded outputs.                                        *)
(*  - SpecPrepare: prepare_input applied to bounded texts, and to its own  *)
(*                 result.                                                 *)
(*  - SpecSend   : send_eval applied to the results post_eval returns.     *)
(*  - SpecLive   : Spec with the fairness of each session's own steps.     *)
(***************************************************************************)
EXTENDS Integers, Sequences, FiniteSets, TLC

None == "None"

(***************************************************************************)
(* Characters and literals                                                 *)
(***************************************************************************)
NL == "\n"
BT == "BT"          \* the backtick
RLO == "RLO"        \* U+202E, right-to-left override
ZWSP == "ZWSP"      \* U+200B, zero-width space
DIGIT == "#"        \* any decimal digit (of a line number)
CUT == "~"          \* a character of a literal that a slice cut short
NamedChars == {BT, RLO, ZWSP}

ESCAPE_CHARS == {BT, RLO, ZWSP}
MinEscapeRun == 3
MAX_PASTE_LEN == 10000
MaxOutputLen == 1000
MaxNewlines == 10
MaxShownLines == 11
LineNoWidth == 3

EscapeWarning == "Code block escape attempt detected; will not output result"
NoOutput == "[No output]"
TooLongToUpload == "too long to upload"
MarkLongLines == "... (truncated - too long, too many lines)"
MarkLines == "... (truncated - too many lines)"
MarkLong == "... (truncated - too long)"
TimeitLine == "10 loops, best of 5: 1.5 usec per loop"
PasteURL == "https://paste/abc.txt"

Width(c) == IF c \in NamedChars THEN 1 ELSE Len(c)

Run(c, n) == [c |-> c, n |-> n]
Str(c) == <<Run(c, 1)>>

\* The recursions below halve their argument, so their depth stays logarithmic
\* in the number of runs.
Left(s) == SubSeq(s, 1, Len(s) \div 2)
Right(s) == SubSeq(s, Len(s) \div 2 + 1, Len(s))

\* len(s)
RECURSIVE StrLen(_)
StrLen(s) ==
    IF s = <<>> THEN 0
    ELSE IF Len(s) = 1 THEN Width(s[1].c) * s[1].n
    ELSE StrLen(Left(s)) + StrLen(Right(s))

\* the normal form: no empty run, adjacent runs of one character merged
RECURSIVE Merge(_)
Merge(s) ==
    IF Len(s) <= 1 THEN s
    ELSE LET a == Merge(Left(s))
             b == Merge(Right(s))
         IN  IF a[Len(a)].c = b[1].c
             THEN SubSeq(a, 1, Len(a) - 1) \o <<Run(b[1].c, a[Len(a)].n + b[1].n)>> \o Tail(b)
             ELSE a \o b

NonEmptyRun(r) == r.n > 0

Norm(s) == Merge(SelectSeq(s, NonEmptyRun))

Concat(a, b) == Norm(a \o b)

Min(a, b) == IF a < b THEN a ELSE b
Max(a, b) == IF a > b THEN a ELSE b

\* s[:k]
Take(s, k) ==
    LET whole == {i \in 0..Len(s) : StrLen(SubSeq(s, 1, i)) <= k}
        m == CHOOSE i \in whole : \A j \in whole : j <= i
        used == StrLen(SubSeq(s, 1, m))
    IN  IF k <= 0 THEN <<>>
        ELSE IF m = Len(s) \/ used = k THEN SubSeq(s, 1, m)
        ELSE Append(SubSeq(s, 1, m), Run(IF Width(s[m + 1].c) = 1 THEN s[m + 1].c ELSE CUT, k - used))

\* s.rstrip(c)
RStrip(s, c) ==
    IF s # <<>> /\ s[Len(s)].c = c THEN SubSeq(s, 1, Len(s) - 1) ELSE s

\* s.count(c)
RECURSIVE Count(_, _)
Count(s, c) ==
    IF s = <<>> THEN 0
    ELSE IF Len(s) = 1 THEN (IF s[1].c = c THEN s[1].n ELSE 0)
    ELSE Count(Left(s), c) + Count(Right(s), c)

\* s.split(sep): the list of the pieces between the separators
RECURSIVE Split(_, _)
Split(s, sep) ==
    IF s = <<>> THEN << <<>> >>
    ELSE IF Len(s) = 1
         THEN IF s[1].c = sep THEN [i \in 1..(s[1].n + 1) |-> <<>>] ELSE <<s>>
    ELSE LET a == Split(Left(s), sep)
             b == Split(Right(s), sep)
         IN  SubSeq(a, 1, Len(a) - 1) \o <<a[Len(a)] \o b[1]>> \o Tail(b)

\* sep.join(parts)
RECURSIVE Join(_, _)
Join(parts, sep) ==
    IF parts = <<>> THEN <<>>
    ELSE IF Len(parts) = 1 THEN parts[1]
    ELSE Norm(Join(Left(parts), sep) \o Str(sep) \o Join(Right(parts), sep))

\* the pattern pat (a sequence of characters, each different from the next)
\* begins in the first run of s and ends in run Len(pat)
MatchesAt(s, pat) ==
    /\ Len(s) >= Len(pat)
    /\ \A j \in 1..Len(pat) : s[j].c = pat[j]
    /\ \A j \in 2..(Len(pat) - 1) : s[j].n = 1

\* s.replace(pat, pat + ins)
RECURSIVE InsertAfterRaw(_, _, _)
InsertAfterRaw(s, pat, ins) ==
    IF s = <<>> THEN <<>>
    ELSE IF MatchesAt(s, pat)
         THEN LET k == Len(pat) IN
              SubSeq(s, 1, k - 1) \o <<Run(pat[k], 1), Run(ins, 1), Run(pat[k], s[k].n - 1)>>
                \o InsertAfterRaw(SubSeq(s, k + 1, Len(s)), pat, ins)
         ELSE <<Head(s)>> \o InsertAfterRaw(Tail(s), pat, ins)

InsertAfter(s, pat, ins) == Norm(InsertAfterRaw(s, pat, ins))

RECURSIVE SumN(_, _, _)
SumN(s, i, j) == IF i > j THEN 0 ELSE s[i].n + SumN(s, i + 1, j)

\* a pattern that asks for one character more
EscapeRunOfFour(s) ==
    \E i \in 1..Len(s) : \E j \in i..Len(s) :
        /\ \A k \in i..j : s[k].c \in ESCAPE_CHARS
        /\ SumN(s, i, j) >= MinEscapeRun + 1

\* ESCAPE_REGEX.findall(s) is non-empty
ESCAPE_REGEX(s) ==
    \E i \in 1..Len(s) : \E j \in i..Len(s) :
        /\ \A k \in i..j : s[k].c \in ESCAPE_CHARS
        /\ SumN(s, i, j) >= MinEscapeRun

RECURSIVE DigitCount(_)
DigitCount(i) == IF i < 10 THEN 1 ELSE 1 + DigitCount(i \div 10)

\* f"{i:03d} | "
LinePrefix(i) == <<Run(DIGIT, Max(LineNoWidth, DigitCount(i))), Run(" ", 1), Run("|", 1), Run(" ", 1)>>

(***************************************************************************)
(* upload_output, format_output, format_timeit_output                      *)
(***************************************************************************)
\* an upload without the ceiling
upload_output_unbounded(output, svc) == [link |-> svc, sent |-> <<output>>]

\* upload_output(output) when send_to_paste_service would answer svc (a URL, or
\* None when the paste service fails).  link: the value returned; sent: the text
\* handed to send_to_paste_service: <<text>>, or <<>> when it is not called.
upload_output(output, svc) ==
    IF StrLen(output) > MAX_PASTE_LEN
    THEN [link |-> TooLongToUpload, sent |-> <<>>]
    ELSE [link |-> svc, sent |-> <<output>>]

NoUpload == [link |-> None, sent |-> <<>>]

\* lines 168-172: neutralise the mention sigils
NeutraliseMentions(output) ==
    InsertAfter(InsertAfter(output, <<"<", "@">>, ZWSP), <<"<", "!", "@">>, ZWSP)

\* [f"{i:03d} | {line}" for i, line in enumerate(parts, start)]
Enumerate(parts, start) ==
    [i \in 1..Len(parts) |-> Norm(LinePrefix(start + i - 1) \o parts[i])]

\* lines 181-184: number the lines and keep the first 11
NumberLines(output) ==
    LET parts == Split(output, NL)
        numbered == Enumerate(parts, 1)
    IN  Join(SubSeq(numbered, 1, Min(MaxShownLines, Len(numbered))), NL)

\* Truncate, with the cut at 1000 characters forgotten where there are too many lines
TruncateUncut(output, lines) ==
    IF lines > MaxNewlines
    THEN IF StrLen(output) >= MaxOutputLen
         THEN [output |-> Norm(output \o Str(NL) \o Str(MarkLongLines)), truncated |-> TRUE]
         ELSE [output |-> Norm(output \o Str(NL) \o Str(MarkLines)), truncated |-> TRUE]
    ELSE IF StrLen(output) >= MaxOutputLen
         THEN [output |-> Norm(Take(output, MaxOutputLen) \o Str(NL) \o Str(MarkLong)), truncated |-> TRUE]
         ELSE [output |-> output, truncated |-> FALSE]

\* lines 186-194: [output, truncated]
Truncate(output, lines) ==
    IF lines > MaxNewlines
    THEN IF StrLen(output) >= MaxOutputLen
         THEN [output |-> Norm(Take(output, MaxOutputLen) \o Str(NL) \o Str(MarkLongLines)), truncated |-> TRUE]
         ELSE [output |-> Norm(output \o Str(NL) \o Str(MarkLines)), truncated |-> TRUE]
    ELSE IF StrLen(output) >= MaxOutputLen
         THEN [output |-> Norm(Take(output, MaxOutputLen) \o Str(NL) \o Str(MarkLong)), truncated |-> TRUE]
         ELSE [output |-> output, truncated |-> FALSE]

\* format_output(output): [output, paste_link], and what was sent to the paste service
format_output(stdout, svc) ==
    LET stripped == RStrip(stdout, NL)
        original_output == stripped
        output == NeutraliseMentions(stripped)
    IN  IF ESCAPE_REGEX(output)
        THEN LET up == upload_output(original_output, svc) IN
             [output |-> Str(EscapeWarning), paste_link |-> up.link, sent |-> up.sent]
        ELSE LET lines == Count(output, NL)
                 numbered == IF lines > 0 THEN NumberLines(output) ELSE output
                 tr == Truncate(numbered, lines)
                 up == IF tr.truncated THEN upload_output(original_output, svc) ELSE NoUpload
             IN  [output |-> IF tr.output = <<>> THEN Str(NoOutput) ELSE tr.output,
                  paste_link |-> up.link, sent |-> up.sent]

\* TIMEIT_OUTPUT_REGEX.fullmatch(line): TimeitLine stands for the lines of that form
TIMEIT_OUTPUT_REGEX(line) == line = Str(TimeitLine)

\* output.rstrip("\n").rsplit("\n", 1)
RSplit1(s, sep) ==
    LET idx == {i \in 1..Len(s) : s[i].c = sep} IN
    IF idx = {} THEN <<s>>
    ELSE LET k == CHOOSE i \in idx : \A j \in idx : j <= i IN
         <<Norm(SubSeq(s, 1, k - 1) \o <<Run(sep, s[k].n - 1)>>), SubSeq(s, k + 1, Len(s))>>

format_timeit_output(stdout, svc) ==
    LET split_output == RSplit1(RStrip(stdout, NL), NL) IN
    IF Len(split_output) = 2 /\ TIMEIT_OUTPUT_REGEX(split_output[2])
    THEN [output |-> split_output[2], paste_link |-> None, sent |-> <<>>]
    ELSE format_output(stdout, svc)

(***************************************************************************)
(* prepare_input.  Message contents and code are plain sequences of        *)
(* characters; EVAL and TIMEIT are the words that invoke the two commands   *)
(* (prefix and name, no whitespace in them).                               *)
(***************************************************************************)
EVAL == "!eval"
TIMEIT == "!timeit"
Letters == {"a", "b"}           \* [a-z], case ignored
Blanks == {" "}                 \* [ \t]
Whitespace == {" ", NL}         \* \s

\* the first position at or after i whose character is not in S (Len(t) + 1 if none)
RunEnd(t, i, S) ==
    CHOOSE j \in i..(Len(t) + 1) :
        /\ j = Len(t) + 1 \/ t[j] \notin S
        /\ \A k \in i..(j - 1) : t[k] \in S

SetMin(S) == CHOOSE x \in S : \A y \in S : x <= y
SetMax(S) == CHOOSE x \in S : \A y \in S : x >= y

\* d backticks stand at position i
IsDelimAt(t, i, d) == i + d - 1 <= Len(t) /\ \A k \in i..(i + d - 1) : t[k] = BT

\* (?:(?P<lang>[a-z]+)\n)? at p: the position after the language line, 0 if there is none
LangEnd(t, p) ==
    LET e == RunEnd(t, p, Letters) IN
    IF e > p /\ e <= Len(t) /\ t[e] = NL THEN e + 1 ELSE 0

\* (?:[ \t]*\n)* at q: the positions it can stop at
RECURSIVE BlankStarts(_, _)
BlankStarts(t, q) ==
    LET e == RunEnd(t, q, Blanks) IN
    {q} \cup (IF e <= Len(t) /\ t[e] = NL THEN BlankStarts(t, e + 1) ELSE {})

\* (?P<code>.*?)\s*(?P=delim) from c0: the ends of code after which, whitespace
\* skipped, the delimiter of d backticks stands
CodeEnds(t, c0, d) == {e \in c0..(Len(t) + 1) : IsDelimAt(t, RunEnd(t, e, Whitespace), d)}

NoMatch == [ok |-> FALSE, block |-> FALSE, code |-> <<>>, end |-> 0]

\* the rest of FORMATTED_CODE_REGEX after the delimiter (and the language line):
\* the blank lines are consumed greedily, the code lazily
MatchBody(t, q, d) ==
    LET starts == {c \in BlankStarts(t, q) : CodeEnds(t, c, d) # {}} IN
    IF starts = {} THEN NoMatch
    ELSE LET c0 == SetMax(starts)
             e == SetMin(CodeEnds(t, c0, d))
         IN  [ok |-> TRUE, block |-> d = 3, code |-> SubSeq(t, c0, e - 1),
              end |-> RunEnd(t, e, Whitespace) + d]

\* FORMATTED_CODE_REGEX.match(t, i): the alternatives in the order the regex
\* engine tries them: ``` with a language line, ``` without, ``, `
MatchAt(t, i) ==
    LET withLang == IF IsDelimAt(t, i, 3) /\ LangEnd(t, i + 3) # 0
                    THEN MatchBody(t, LangEnd(t, i + 3), 3) ELSE NoMatch
        block == IF IsDelimAt(t, i, 3) THEN MatchBody(t, i + 3, 3) ELSE NoMatch
        two == IF IsDelimAt(t, i, 2) THEN MatchBody(t, i + 2, 2) ELSE NoMatch
        one == IF IsDelimAt(t, i, 1) THEN MatchBody(t, i + 1, 1) ELSE NoMatch
    IN  IF withLang.ok THEN withLang
        ELSE IF block.ok THEN block
        ELSE IF two.ok THEN two
        ELSE one

\* list(FORMATTED_CODE_REGEX.finditer(t)), scanning from position i
RECURSIVE FindIter(_, _)
FindIter(t, i) ==
    IF i > Len(t) THEN <<>>
    ELSE LET m == MatchAt(t, i) IN
         IF m.ok THEN <<m>> \o FindIter(t, m.end) ELSE FindIter(t, i + 1)

\* a pattern that takes the whole text as the code
RawWhole(t) == t

\* RAW_CODE_REGEX.fullmatch(t).group("code")
RAW_CODE_REGEX(t) ==
    LET c0 == SetMax(BlankStarts(t, 1))
        e == SetMin({j \in c0..(Len(t) + 1) : \A k \in j..Len(t) : t[k] \in Whitespace})
    IN  SubSeq(t, c0, e - 1)

\* t.split("\n") on a plain text
RECURSIVE SplitLines(_)
SplitLines(t) ==
    LET e == RunEnd(t, 1, {c \in {t[k] : k \in 1..Len(t)} : c # NL}) IN
    IF e > Len(t) THEN <<t>>
    ELSE <<SubSeq(t, 1, e - 1)>> \o SplitLines(SubSeq(t, e + 1, Len(t)))

\* "\n".join(lines) on plain texts
RECURSIVE JoinLines(_)
JoinLines(lines) ==
    IF Len(lines) = 1 THEN lines[1]
    ELSE lines[1] \o <<NL>> \o JoinLines(Tail(lines))

IsBlankLine(line) == \A k \in 1..Len(line) : line[k] \in Blanks

\* textwrap.dedent: whitespace-only lines are emptied, the common leading
\* whitespace of the other lines is removed
dedent(t) ==
    LET lines == SplitLines(t)
        indents == {RunEnd(lines[i], 1, Blanks) - 1 : i \in {j \in 1..Len(lines) : ~IsBlankLine(lines[j])}}
        margin == IF indents = {} THEN 0 ELSE SetMin(indents)
    IN  JoinLines([i \in 1..Len(lines) |->
                     IF IsBlankLine(lines[i]) THEN <<>>
                     ELSE SubSeq(lines[i], margin + 1, Len(lines[i]))])

IsBlock(m) == m.block

\* prepare_input(code) for a str
prepare_input(code) ==
    LET match == FindIter(code, 1)
        blocks == SelectSeq(match, IsBlock)
    IN  IF match # <<>>
        THEN IF Len(blocks) > 1
             THEN dedent(JoinLines([i \in 1..Len(blocks) |-> blocks[i].code]))
             ELSE dedent(IF Len(blocks) = 0 THEN match[1].code ELSE blocks[1].code)
        ELSE dedent(RAW_CODE_REGEX(code))

(***************************************************************************)
(* get_code, the command callbacks' code, get_results_message,             *)
(* get_status_emoji, and the message send_eval composes                    *)
(***************************************************************************)
Some(x) == <<x>>        \* an Optional that is not None; <<>> is None
Nothing == <<>>

\* the command a message invokes (bot.get_context): its first word is the
\* command's word; None when it invokes neither command
CommandOf(content) ==
    IF content # <<>> /\ content[1] \in {EVAL, TIMEIT}
       /\ (Len(content) = 1 \/ content[2] \in Whitespace)
    THEN (IF content[1] = EVAL THEN "eval" ELSE "timeit")
    ELSE None

\* content.split(maxsplit=1)
SplitOnce(content) ==
    LET a == RunEnd(content, 1, Whitespace)
        b == RunEnd(content, a, {c \in {content[k] : k \in 1..Len(content)} : c \notin Whitespace})
        r == RunEnd(content, b, Whitespace)
    IN  IF a > Len(content) THEN <<>>
        ELSE IF r > Len(content) THEN <<SubSeq(content, a, b - 1)>>
        ELSE <<SubSeq(content, a, b - 1), SubSeq(content, r, Len(content))>>

\* get_code(message, command): Some(code), or Nothing for None
get_code(content, command) ==
    IF CommandOf(content) = command
    THEN LET split == SplitOnce(content) IN
         IF Len(split) > 1 THEN Some(split[2]) ELSE Nothing
    ELSE Some(content)

\* textwrap.indent(code, "    "): the prefix goes before every line that is
\* not whitespace only
indent(code) ==
    LET lines == SplitLines(code) IN
    JoinLines([i \in 1..Len(lines) |->
                 IF IsBlankLine(lines[i]) THEN lines[i]
                 ELSE <<" ", " ", " ", " ">> \o lines[i]])

WrapperHead == "\nfrom contextlib import redirect_stdout\nfrom io import StringIO\n\nwith redirect_stdout(StringIO()):\n    del redirect_stdout, StringIO\n"

\* TIMEIT_EVAL_WRAPPER.format(code=code)
TIMEIT_EVAL_WRAPPER(code) == <<WrapperHead>> \o code \o <<NL>>

\* what eval_command / timeit_command hand to run_eval for the argument text
CommandCode(command, arg) ==
    IF command = "eval" THEN prepare_input(arg)
    ELSE TIMEIT_EVAL_WRAPPER(indent(prepare_input(arg)))

CommandArgs(command) == IF command = "eval" THEN Nothing ELSE Some(<<"-m", "timeit">>)

SIGKILL == 9

\* Signals(n).name, "" where Signals(n) raises ValueError
SignalName(n) ==
    IF n = 2 THEN "SIGINT" ELSE IF n = 6 THEN "SIGABRT" ELSE IF n = 9 THEN "SIGKILL"
    ELSE IF n = 11 THEN "SIGSEGV" ELSE IF n = 15 THEN "SIGTERM" ELSE ""

StripChars == {" ", NL}

\* s.strip() on a run-length encoded text
Strip(s) ==
    LET keep == {i \in 1..Len(s) : s[i].c \notin StripChars} IN
    IF keep = {} THEN <<>> ELSE SubSeq(s, SetMin(keep), SetMax(keep))

FatalNsJail == "A fatal NsJail error occurred"

\* get_results_message(results): the message (its kind, the return code it
\* shows, the signal name appended) and the error
get_results_message(results) ==
    LET rc == results.returncode IN
    IF rc = Nothing
    THEN [msg |-> [text |-> "Your eval job has failed", rc |-> Nothing, signal |-> ""],
          error |-> Strip(results.stdout)]
    ELSE IF rc[1] = 128 + SIGKILL
    THEN [msg |-> [text |-> "Your eval job timed out or ran out of memory", rc |-> Nothing, signal |-> ""],
          error |-> <<>>]
    ELSE IF rc[1] = 255
    THEN [msg |-> [text |-> "Your eval job has failed", rc |-> Nothing, signal |-> ""],
          error |-> Str(FatalNsJail)]
    ELSE [msg |-> [text |-> "Your eval job has completed with return code", rc |-> rc,
                   signal |-> SignalName(rc[1] - 128)],
          error |-> <<>>]

\* an emoji that looks at the return code before the lack of output
get_status_emoji_by_code(results) ==
    IF results.returncode \in {Nothing, Some(255)} THEN ":x:"
    ELSE IF Strip(results.stdout) = <<>> THEN ":warning:"
    ELSE IF results.returncode = Some(0) THEN ":white_check_mark:"
    ELSE ":x:"

\* get_status_emoji(results)
get_status_emoji(results) ==
    IF Strip(results.stdout) = <<>> THEN ":warning:"
    ELSE IF results.returncode = Some(0) THEN ":white_check_mark:"
    ELSE ":x:"

FormatFunc(command, stdout, svc) ==
    IF command = "eval" THEN format_output(stdout, svc) ELSE format_timeit_output(stdout, svc)

NoMsg == [text |-> "", rc |-> Nothing, signal |-> ""]
NoResponse ==
    [kind |-> "none", icon |-> "", msg |-> NoMsg, output |-> <<>>, paste_link |-> None, deleted |-> FALSE]

JobRunningNotice == [NoResponse EXCEPT !.kind = "job_running"]
FilterNotice == [NoResponse EXCEPT !.kind = "filter_notice"]

\* send_eval, lines 218-245: the message sent for the results; the format
\* function is the command's; svc is the paste service's answer and
\* filter_triggered the filter cog's
send_eval_message(command, results, svc, filter_triggered) ==
    LET rm == get_results_message(results)
        fmt == IF rm.error # <<>>
               THEN [output |-> rm.error, paste_link |-> None]
               ELSE LET f == FormatFunc(command, results.stdout, svc) IN
                    [output |-> f.output, paste_link |-> f.paste_link]
    IN  IF filter_triggered THEN FilterNotice
        ELSE [kind |-> "result", icon |-> get_status_emoji(results), msg |-> rm.msg,
              output |-> fmt.output, paste_link |-> fmt.paste_link, deleted |-> FALSE]

(***************************************************************************)
(* State                                                                   *)
(***************************************************************************)
PasteAnswers == {PasteURL, None}

NoRet == [output |-> <<>>, paste_link |-> None, sent |-> <<>>]

VARIABLES
    f_stdout,   \* SpecFormat: the output handed to the format function
    f_svc,      \* SpecFormat: what the paste service answers when it is called
    f_pc,       \* SpecFormat: "ready", or the name of the function that returned
    f_ret,      \* SpecFormat: what it returned
    p_text,     \* SpecPrepare: the text handed to prepare_input
    p_pc,       \* SpecPrepare: "ready", then "prepare_input", then "again"
    p_ret,      \* SpecPrepare: what the last call returned
    jobs,       \* Spec: self.jobs, user id -> start time
    clock,      \* Spec: datetime.datetime.now(), a fresh value at each reading
    pc,         \* Spec: where each session (one command invocation) stands
    author,     \* Spec: ctx.author.id
    cmd,        \* Spec: ctx.command
    content,    \* Spec: the content of ctx.message
    exists,     \* Spec: ctx.message has not been deleted
    request,    \* Spec: the last request posted to the execution service
    nreq,       \* Spec: how many requests the session has posted
    response,   \* Spec: the last message the session sent
    nsent,      \* Spec: how many messages the session has sent
    indicator,  \* Spec: the bot's REEVAL_EMOJI reaction is on ctx.message
    exc,        \* Spec: the exception that left run_eval, with those raised after it
    how,        \* Spec: why the re-evaluation loop ended, "" if it has not
    r_results,  \* SpecSend: what post_eval returned
    r_svc,      \* SpecSend: what the paste service answers
    r_pc,       \* SpecSend: "ready", then the command whose send_eval ran
    r_ret       \* SpecSend: the message send_eval sent

fvars == <<f_stdout, f_svc, f_pc, f_ret>>
pvars == <<p_text, p_pc, p_ret>>
svars == <<jobs, clock, pc, author, cmd, content, exists, request, nreq, response, nsent, indicator, exc, how>>
rvars == <<r_results, r_svc, r_pc, r_ret>>
vars == <<fvars, pvars, svars, rvars>>

FIdle == f_stdout = <<>> /\ f_svc = None /\ f_pc = "idle" /\ f_ret = NoRet
PIdle == p_text = <<>> /\ p_pc = "idle" /\ p_ret = <<>>
NoResults == [stdout |-> <<>>, returncode |-> Nothing]
RIdle == r_results = NoResults /\ r_svc = None /\ r_pc = "idle" /\ r_ret = NoResponse

(***************************************************************************)
(* Spec: the sessions                                                      *)
(***************************************************************************)
NumSessions == 2
MaxRounds == 1          \* re-evaluations a user asks for in one session

Sessions == 1..NumSessions
Users == {"u1", "u2"}
Commands == {"eval", "timeit"}
REEVAL_EMOJI == "repeat"
Emojis == {REEVAL_EMOJI, "thumbsup"}

\* the word that invokes the command
Invocation(command) == IF command = "eval" THEN EVAL ELSE TIMEIT

\* the message that invokes the command
InitialContent(command) == <<Invocation(command), " ", "a">>

\* what a user edits the message to: the command with another code, the
\* command alone, a text that invokes no command
EditContents(command) == {<<Invocation(command), " ", "b">>, <<Invocation(command)>>, <<BT, BT>>}

\* what the execution service answers
Results ==
    {[stdout |-> <<Run("x", 1), Run(NL, 1), Run(TimeitLine, 1), Run(NL, 1)>>, returncode |-> Some(0)],
     [stdout |-> <<Run("x", 1)>>, returncode |-> Nothing]}

\* the paste service answers (its failure is SpecFormat's subject)
PasteUp == PasteURL

NoRequest == [input |-> <<>>, args |-> Nothing]

SInit ==
    /\ jobs = <<>>
    /\ clock = 1
    /\ pc = [s \in Sessions |-> "Idle"]
    /\ author = [s \in Sessions |-> None]
    /\ cmd = [s \in Sessions |-> None]
    /\ content = [s \in Sessions |-> <<>>]
    /\ exists = [s \in Sessions |-> FALSE]
    /\ request = [s \in Sessions |-> NoRequest]
    /\ nreq = [s \in Sessions |-> 0]
    /\ response = [s \in Sessions |-> NoResponse]
    /\ nsent = [s \in Sessions |-> 0]
    /\ indicator = [s \in Sessions |-> FALSE]
    /\ exc = [s \in Sessions |-> <<>>]
    /\ how = [s \in Sessions |-> ""]

SIdle == SInit

Init == SInit /\ FIdle /\ PIdle /\ RIdle

\* a check that finds no entry, whatever the registry holds
NeverInJobs(j, u) == FALSE

\* line 318: ctx.author.id in self.jobs
InJobs(j, u) == u \in DOMAIN j

\* line 340: self.jobs[ctx.author.id] = datetime.datetime.now()
JobsSet(j, u, now) == [x \in DOMAIN j \cup {u} |-> IF x = u THEN now ELSE j[x]]

\* a release that leaves the entry in place
JobsKeep(j, u) == j

\* line 344: del self.jobs[ctx.author.id], where the key is there
JobsDel(j, u) == [x \in DOMAIN j \ {u} |-> j[x]]

\* lines 340-342: the top of the loop: the entry is written and send_eval
\* posts the request
Submit(s, u, code, args) ==
    /\ jobs' = JobsSet(jobs, u, clock)
    /\ clock' = clock + 1
    /\ request' = [request EXCEPT ![s] = [input |-> code, args |-> args]]
    /\ nreq' = [nreq EXCEPT ![s] = @ + 1]
    /\ pc' = [pc EXCEPT ![s] = "AwaitingResult"]

\* lines 318-323: the notice, and run_eval returns
Reject(s) ==
    /\ response' = [response EXCEPT ![s] = JobRunningNotice]
    /\ nsent' = [nsent EXCEPT ![s] = @ + 1]
    /\ pc' = [pc EXCEPT ![s] = "Rejected"]
    /\ UNCHANGED <<jobs, clock, request, nreq>>

\* eval_command / timeit_command, and run_eval up to the first request
Invoke(s) ==
    /\ pc[s] = "Idle"
    /\ \E u \in Users, c \in Commands :
         /\ author' = [author EXCEPT ![s] = u]
         /\ cmd' = [cmd EXCEPT ![s] = c]
         /\ content' = [content EXCEPT ![s] = InitialContent(c)]
         /\ exists' = [exists EXCEPT ![s] = TRUE]
         /\ IF InJobs(jobs, u)
            THEN Reject(s)
            ELSE /\ Submit(s, u, CommandCode(c, SplitOnce(InitialContent(c))[2]), CommandArgs(c))
                 /\ UNCHANGED <<response, nsent>>
    /\ UNCHANGED <<indicator, exc, how, fvars, pvars, rvars>>

\* lines 342-346: post_eval returned; send_eval sends the message; the finally
\* clause deletes the entry (KeyError when it is not there); continue_eval waits
PostEvalReturns(s) ==
    /\ pc[s] = "AwaitingResult"
    /\ \E r \in Results, filter_triggered \in BOOLEAN :
         response' = [response EXCEPT ![s] = send_eval_message(cmd[s], r, PasteUp, filter_triggered)]
    /\ nsent' = [nsent EXCEPT ![s] = @ + 1]
    /\ IF InJobs(jobs, author[s])
       THEN /\ jobs' = JobsDel(jobs, author[s])
            /\ pc' = [pc EXCEPT ![s] = "AwaitingEdit"]
            /\ exc' = exc
       ELSE /\ jobs' = jobs
            /\ pc' = [pc EXCEPT ![s] = "Raised"]
            /\ exc' = [exc EXCEPT ![s] = <<"KeyError">>]
    /\ UNCHANGED <<clock, author, cmd, content, exists, request, nreq, indicator, how, fvars, pvars, rvars>>

\* a session that swallows the failure of post_eval and goes on to the edit wait
PostEvalRaisesSwallowed(s) ==
    /\ pc[s] = "AwaitingResult"
    /\ pc' = [pc EXCEPT ![s] = "AwaitingEdit"]
    /\ jobs' = JobsDel(jobs, author[s])
    /\ exc' = [exc EXCEPT ![s] = <<"ClientResponseError">>]
    /\ UNCHANGED <<clock, author, cmd, content, exists, request, nreq, response, nsent, indicator, how, fvars, pvars, rvars>>

\* lines 80, 342-344: post_eval raised (raise_for_status, or the transport);
\* the finally clause deletes the entry and the exception leaves run_eval
PostEvalRaises(s) ==
    /\ pc[s] = "AwaitingResult"
    /\ pc' = [pc EXCEPT ![s] = "Raised"]
    /\ IF InJobs(jobs, author[s])
       THEN /\ jobs' = JobsDel(jobs, author[s])
            /\ exc' = [exc EXCEPT ![s] = <<"ClientResponseError">>]
       ELSE /\ jobs' = jobs
            /\ exc' = [exc EXCEPT ![s] = <<"ClientResponseError", "KeyError">>]
    /\ UNCHANGED <<clock, author, cmd, content, exists, request, nreq, response, nsent, indicator, how, fvars, pvars, rvars>>

\* predicate_eval_message_edit(ctx, old_msg, new_msg), ctx being session s's
predicate_eval_message_edit(s, m, old_content, new_content) ==
    m = s /\ old_content # new_content

\* predicate_eval_emoji_reaction(ctx, reaction, user)
predicate_eval_emoji_reaction(s, m, u, emoji) ==
    m = s /\ u = author[s] /\ emoji = REEVAL_EMOJI

\* message m is edited to c while its session waits for an edit: the event
\* goes to every session waiting for one (lines 262-266)
UserEdit(m) ==
    /\ pc[m] = "AwaitingEdit" /\ exists[m] /\ nreq[m] <= MaxRounds
    /\ \E c \in EditContents(cmd[m]) \cup {content[m]} :
         /\ content' = [content EXCEPT ![m] = c]
         /\ pc' = [s \in Sessions |->
                     IF pc[s] = "AwaitingEdit" /\ predicate_eval_message_edit(s, m, content[m], c)
                     THEN "AddReaction" ELSE pc[s]]
    /\ UNCHANGED <<jobs, clock, author, cmd, exists, request, nreq, response, nsent, indicator, exc, how, fvars, pvars, rvars>>

\* an add_reaction whose NotFound leaves continue_eval and run_eval
AddReactionRaising(s) ==
    /\ pc[s] = "AddReaction"
    /\ IF exists[s]
       THEN /\ indicator' = [indicator EXCEPT ![s] = TRUE]
            /\ pc' = [pc EXCEPT ![s] = "AwaitingReaction"]
            /\ exc' = exc
       ELSE /\ indicator' = indicator
            /\ pc' = [pc EXCEPT ![s] = "Raised"]
            /\ exc' = [exc EXCEPT ![s] = <<"NotFound">>]
    /\ UNCHANGED <<jobs, clock, author, cmd, content, exists, request, nreq, response, nsent, how, fvars, pvars, rvars>>

\* line 267: ctx.message.add_reaction(REEVAL_EMOJI); NotFound (the message is
\* gone) is suppressed at line 260 and continue_eval returns None
AddReaction(s) ==
    /\ pc[s] = "AddReaction"
    /\ IF exists[s]
       THEN /\ indicator' = [indicator EXCEPT ![s] = TRUE]
            /\ pc' = [pc EXCEPT ![s] = "AwaitingReaction"]
            /\ how' = how
       ELSE /\ indicator' = indicator
            /\ pc' = [pc EXCEPT ![s] = "Terminated"]
            /\ how' = [how EXCEPT ![s] = "not_found"]
    /\ UNCHANGED <<jobs, clock, author, cmd, content, exists, request, nreq, response, nsent, exc, fvars, pvars, rvars>>

\* user u adds the reaction emoji to message m while its session waits for a
\* reaction: the event goes to every session waiting for one (lines 268-272)
UserReaction(m) ==
    /\ pc[m] = "AwaitingReaction" /\ exists[m]
    /\ \E u \in Users, emoji \in Emojis :
         pc' = [s \in Sessions |->
                  IF pc[s] = "AwaitingReaction" /\ predicate_eval_emoji_reaction(s, m, u, emoji)
                  THEN "ClearReaction" ELSE pc[s]]
    /\ UNCHANGED <<jobs, clock, author, cmd, content, exists, request, nreq, response, nsent, indicator, exc, how, fvars, pvars, rvars>>

\* a clear_reaction that leaves the reaction on the message
ClearReactionSkipped(ind, s) == ind

\* ctx.message.clear_reaction(REEVAL_EMOJI) where the message is there
ClearReaction(ind, s) == [ind EXCEPT ![s] = FALSE]

\* lines 274-283 and 346-349, 340-342: the reaction came: get_code,
\* clear_reaction (NotFound suppressed: None), response.delete() (HTTPException
\* suppressed), prepare_input (TypeError on None); then run_eval ends the loop
\* on a falsy code or goes round
Reeval(s) ==
    /\ pc[s] = "ClearReaction"
    /\ \E code \in {get_code(content[s], cmd[s])} :
       IF ~exists[s]
       THEN /\ pc' = [pc EXCEPT ![s] = "Terminated"]
            /\ how' = [how EXCEPT ![s] = "not_found"]
            /\ UNCHANGED <<jobs, clock, request, nreq, response, indicator, exc>>
       ELSE /\ indicator' = ClearReaction(indicator, s)
            /\ \E deleted \in BOOLEAN : response' = [response EXCEPT ![s].deleted = deleted]
            /\ IF code = Nothing
               THEN /\ pc' = [pc EXCEPT ![s] = "Raised"]
                    /\ exc' = [exc EXCEPT ![s] = <<"TypeError">>]
                    /\ UNCHANGED <<jobs, clock, request, nreq, how>>
               ELSE \E prepared \in {prepare_input(code[1])} :
                    IF prepared = <<>>
                    THEN /\ pc' = [pc EXCEPT ![s] = "Terminated"]
                         /\ how' = [how EXCEPT ![s] = "no_code"]
                         /\ UNCHANGED <<jobs, clock, request, nreq, exc>>
                    ELSE /\ Submit(s, author[s], prepared, request[s].args)
                         /\ UNCHANGED <<exc, how>>
    /\ UNCHANGED <<author, cmd, content, exists, nsent, fvars, pvars, rvars>>

\* lines 279-281, the edit wait timed out: clear_reaction, return None
EditTimeout(s) ==
    /\ pc[s] = "AwaitingEdit"
    /\ indicator' = IF exists[s] THEN ClearReaction(indicator, s) ELSE indicator
    /\ pc' = [pc EXCEPT ![s] = "Terminated"]
    /\ how' = [how EXCEPT ![s] = "edit_timeout"]
    /\ UNCHANGED <<jobs, clock, author, cmd, content, exists, request, nreq, response, nsent, exc, fvars, pvars, rvars>>

\* a reaction timeout that deletes the response as the reaction does
ReactionTimeoutDeleting(s) ==
    /\ pc[s] = "AwaitingReaction"
    /\ indicator' = IF exists[s] THEN ClearReaction(indicator, s) ELSE indicator
    /\ response' = [response EXCEPT ![s].deleted = TRUE]
    /\ pc' = [pc EXCEPT ![s] = "Terminated"]
    /\ how' = [how EXCEPT ![s] = "reaction_timeout"]
    /\ UNCHANGED <<jobs, clock, author, cmd, content, exists, request, nreq, nsent, exc, fvars, pvars, rvars>>

\* lines 279-281, the reaction wait timed out: clear_reaction, return None
ReactionTimeout(s) ==
    /\ pc[s] = "AwaitingReaction"
    /\ indicator' = IF exists[s] THEN ClearReaction(indicator, s) ELSE indicator
    /\ pc' = [pc EXCEPT ![s] = "Terminated"]
    /\ how' = [how EXCEPT ![s] = "reaction_timeout"]
    /\ UNCHANGED <<jobs, clock, author, cmd, content, exists, request, nreq, response, nsent, exc, fvars, pvars, rvars>>

\* the user deletes the message during the re-evaluation wait; its reactions
\* go with it
DeleteMessage(m) ==
    /\ exists[m]
    /\ pc[m] \in {"AwaitingEdit", "AddReaction", "AwaitingReaction", "ClearReaction"}
    /\ exists' = [exists EXCEPT ![m] = FALSE]
    /\ indicator' = [indicator EXCEPT ![m] = FALSE]
    /\ UNCHANGED <<jobs, clock, pc, author, cmd, content, request, nreq, response, nsent, exc, how, fvars, pvars, rvars>>

Next ==
    \E s \in Sessions :
        \/ Invoke(s)
        \/ PostEvalReturns(s)
        \/ PostEvalRaises(s)
        \/ UserEdit(s)
        \/ AddReaction(s)
        \/ UserReaction(s)
        \/ Reeval(s)
        \/ EditTimeout(s)
        \/ ReactionTimeout(s)
        \/ DeleteMessage(s)

Spec == Init /\ [][Next]_vars

\* a step that does not wait for a user: the execution service answers or
\* fails the request (post_eval returns or raises), the timer of a wait_for
\* fires, or the event loop runs the coroutine on (add_reaction, and the steps
\* after the reaction)
Progress(s) ==
    \/ PostEvalReturns(s)
    \/ PostEvalRaises(s)
    \/ EditTimeout(s)
    \/ ReactionTimeout(s)
    \/ AddReaction(s)
    \/ Reeval(s)

\* The sessions with the scheduling the program relies on: a session that can
\* take such a step takes one, unless an event of a user comes first.  The
\* users' steps carry no fairness.
Fairness == \A s \in Sessions : WF_vars(Progress(s))

SpecLive == Init /\ [][Next]_vars /\ Fairness

(***************************************************************************)
(* SpecFormat: the format functions on bounded outputs                     *)
(***************************************************************************)
MaxRuns == 3

\* the runs an output is built from
Pieces ==
    {Run("x", n) : n \in {1, 990, 1000, 9999, 10001}}
      \cup {Run(NL, n) : n \in {1, 10, 11}}
      \cup {Run(BT, n) : n \in {1, 3}}
      \cup {Run(c, 1) : c \in {"<", "!", "@", TimeitLine, ZWSP, RLO}}

IsNormal(s) == \A i \in 1..(Len(s) - 1) : s[i].c # s[i + 1].c

Outputs == {s \in UNION {[1..n -> Pieces] : n \in 0..MaxRuns} : IsNormal(s)}


FInit ==
    /\ f_stdout \in Outputs
    /\ f_svc \in PasteAnswers
    /\ f_pc = "ready"
    /\ f_ret = NoRet
    /\ PIdle /\ SIdle /\ RIdle

CallFormatOutput ==
    /\ f_pc = "ready"
    /\ f_ret' = format_output(f_stdout, f_svc)
    /\ f_pc' = "format_output"
    /\ UNCHANGED <<f_stdout, f_svc, pvars, svars, rvars>>

CallFormatTimeitOutput ==
    /\ f_pc = "ready"
    /\ f_ret' = format_timeit_output(f_stdout, f_svc)
    /\ f_pc' = "format_timeit_output"
    /\ UNCHANGED <<f_stdout, f_svc, pvars, svars, rvars>>

FNext == CallFormatOutput \/ CallFormatTimeitOutput

SpecFormat == FInit /\ [][FNext]_vars

(***************************************************************************)
(* SpecPrepare: prepare_input on bounded texts, and on its own result      *)
(***************************************************************************)
MaxTextLen == 6

TextChars == {BT, "a", " ", NL}

Texts == UNION {[1..n -> TextChars] : n \in 0..MaxTextLen}

\* a fenced block
Fence == <<BT, BT, BT>>

\* what stands in a fenced block: no backtick, no language line, no blank
\* first line, no trailing whitespace
Contents == {<<"a">>, <<"b">>, <<" ", "a">>, <<" ", "a", NL, " ", "b">>}

\* what stands around the fenced blocks: nothing, words, whitespace, inline
\* code in one or two backticks, a lone backtick
Prose ==
    {<<>>, <<"a">>, <<" ">>, <<NL>>, <<BT, "a", BT>>, <<BT, BT, "a", BT, BT>>, <<"a", BT, " ">>}

\* a text with two fenced blocks
TwoBlocks(p0, c1, p1, c2, p2) == p0 \o Fence \o c1 \o Fence \o p1 \o Fence \o c2 \o Fence \o p2

BlockTexts == {TwoBlocks(p0, c1, p1, c2, p2) : p0, p1, p2 \in Prose, c1, c2 \in Contents}

PInit ==
    /\ p_text \in Texts \cup BlockTexts
    /\ p_pc = "ready"
    /\ p_ret = <<>>
    /\ FIdle /\ SIdle /\ RIdle

CallPrepareInput ==
    /\ p_pc = "ready"
    /\ p_ret' = prepare_input(p_text)
    /\ p_pc' = "prepare_input"
    /\ UNCHANGED <<p_text, fvars, svars, rvars>>

CallPrepareInputAgain ==
    /\ p_pc = "prepare_input"
    /\ p_ret' = prepare_input(p_ret)
    /\ p_pc' = "again"
    /\ UNCHANGED <<p_text, fvars, svars, rvars>>

PNext == CallPrepareInput \/ CallPrepareInputAgain

SpecPrepare == PInit /\ [][PNext]_vars

(***************************************************************************)
(* SpecSend: send_eval on bounded results of post_eval                     *)
(***************************************************************************)
MaxSendRuns == 2

\* the runs a stdout is built from
SendPieces == Pieces \cup {Run(" ", 1)}

Stdouts == {s \in UNION {[1..n -> SendPieces] : n \in 0..MaxSendRuns} : IsNormal(s)}

\* absent, success, an error, SIGKILL, NsJail's fatal error, SIGSEGV
ReturnCodes == {Nothing, Some(0), Some(1), Some(128 + SIGKILL), Some(255), Some(139)}

RInit ==
    /\ r_results \in [stdout : Stdouts, returncode : ReturnCodes]
    /\ r_svc \in PasteAnswers
    /\ r_pc = "ready"
    /\ r_ret = NoResponse
    /\ FIdle /\ PIdle /\ SIdle

\* send_eval once post_eval has returned r_results, as either command's
SendEval ==
    /\ r_pc = "ready"
    /\ \E command \in Commands, filter_triggered \in BOOLEAN :
         /\ r_ret' = send_eval_message(command, r_results, r_svc, filter_triggered)
         /\ r_pc' = command
    /\ UNCHANGED <<r_results, r_svc, fvars, pvars, svars>>

RNext == SendEval

SpecSend == RInit /\ [][RNext]_vars

(***************************************************************************)
(* Properties of the sessions (Spec)                                       *)
(***************************************************************************)
\* C1 (as claimed): while an attempt of a user is executing (the session is
\* inside send_eval), self.jobs holds an entry for that user, so that a new
\* command of the user is rejected.
C1_EntryWhileExecuting ==
    \A s \in Sessions : pc[s] = "AwaitingResult" => author[s] \in DOMAIN jobs

\* C2: a command of a user who has an entry in self.jobs is rejected in the
\* same step: the notice is the one message sent, no request is posted, the
\* registry is left as it was, and the session never waits or posts later.
C2_RejectedSynchronously ==
    [][\A s \in Sessions :
        /\ (pc[s] = "Idle" /\ pc'[s] # "Idle" /\ author'[s] \in DOMAIN jobs) =>
              /\ pc'[s] = "Rejected"
              /\ response'[s] = JobRunningNotice /\ nsent'[s] = 1
              /\ nreq'[s] = 0 /\ request'[s] = NoRequest
              /\ jobs' = jobs
        /\ pc[s] = "Rejected" =>
              /\ pc'[s] = "Rejected"
              /\ nreq'[s] = 0 /\ nsent'[s] = 1 /\ ~indicator'[s]]_vars

C2_Witness ==
    \E s \in Sessions :
        /\ pc[s] = "Rejected" /\ response[s] = JobRunningNotice
        /\ author[s] \in DOMAIN jobs

\* C3 (as claimed): no step overwrites an entry of self.jobs: an entry that is
\* there before and after a step has kept its start time.
C3_InsertIfAbsent ==
    [][\A u \in Users :
        (u \in DOMAIN jobs /\ u \in DOMAIN jobs') => jobs'[u] = jobs[u]]_vars

\* C4: self.jobs holds no stale entry: a user with an entry has a session
\* inside send_eval; there is none when all the user's sessions wait or are over.
C4_NoStaleEntry ==
    \A u \in DOMAIN jobs :
        \E s \in Sessions : author[s] = u /\ pc[s] = "AwaitingResult"

C4_Witness ==
    \E s, t \in Sessions :
        /\ s # t /\ author[s] = author[t]
        /\ pc[s] = "AwaitingReaction" /\ pc[t] = "Terminated"
        /\ nreq[s] = 1 /\ nreq[t] = 2
        /\ author[s] \notin DOMAIN jobs

\* the step in which post_eval raises in session s
PostEvalRaised(s) ==
    pc[s] = "AwaitingResult" /\ exc'[s] # <<>> /\ exc'[s][1] = "ClientResponseError"

C6_ReevalRestarts ==
    [][\A s \in Sessions :
        (pc[s] = "ClearReaction" /\ pc'[s] # "ClearReaction" /\ exists[s]) =>
            /\ get_code(content[s], cmd[s]) # Nothing
            /\ pc'[s] = "AwaitingResult"
            /\ nreq'[s] = nreq[s] + 1
            /\ request'[s].input = prepare_input(get_code(content[s], cmd[s])[1])
            /\ author[s] \notin DOMAIN jobs]_vars

\* C7: a reaction wait that ends without the author's reaction removes the
\* indicator and ends the session: no request is posted, the response is not
\* deleted, and nothing happens in the session afterwards.
C7_NoReactionEnds ==
    [][\A s \in Sessions :
        /\ (pc[s] = "AwaitingReaction" /\ pc'[s] \notin {"AwaitingReaction", "ClearReaction"}) =>
              /\ pc'[s] = "Terminated"
              /\ ~indicator'[s]
              /\ nreq'[s] = nreq[s] /\ request'[s] = request[s]
              /\ response'[s] = response[s] /\ nsent'[s] = nsent[s]
        /\ pc[s] = "Terminated" =>
              /\ pc'[s] = "Terminated"
              /\ nreq'[s] = nreq[s] /\ response'[s] = response[s] /\ ~indicator'[s]]_vars

C7_Witness ==
    \E s \in Sessions :
        /\ pc[s] = "Terminated" /\ how[s] = "reaction_timeout" /\ exists[s]
        /\ nreq[s] = 1 /\ response[s].kind = "result" /\ ~response[s].deleted
        /\ content[s] # InitialContent(cmd[s])

\* C8: the indicator is on the message only from the qualifying edit to the
\* cleanup that ends the reaction wait: never while the session is inside
\* send_eval, waits for an edit, or is over.
C8_NoDanglingIndicator ==
    \A s \in Sessions :
        /\ indicator[s] => pc[s] \in {"AwaitingReaction", "ClearReaction"}
        /\ (\/ pc[s] \in {"AwaitingResult", "AwaitingEdit"}
            \/ pc[s] = "Terminated" /\ how[s] \in {"edit_timeout", "reaction_timeout"})
           => ~indicator[s]

C8_Witness ==
    \E s \in Sessions :
        /\ pc[s] = "AwaitingResult" /\ nreq[s] = 2 /\ exists[s]
        /\ ~indicator[s]

\* session s takes a step of continue_eval that adds or removes the indicator
IndicatorStep(s) ==
    pc[s] \in {"AwaitingEdit", "AddReaction", "AwaitingReaction", "ClearReaction"} /\ pc'[s] # pc[s]
        /\ ~(pc[s] = "AwaitingEdit" /\ pc'[s] = "AddReaction")
        /\ ~(pc[s] = "AwaitingReaction" /\ pc'[s] = "ClearReaction")

\* C16: when the message is gone (NotFound) as continue_eval adds or removes
\* the indicator, no exception leaves the session, no message is sent, no
\* request is posted and the session is over; and when the previous response
\* could not be deleted, no exception leaves the session and a code that is
\* there and not empty is posted as a new request all the same.
C16_CleanupBestEffort ==
    [][\A s \in Sessions :
        /\ (IndicatorStep(s) /\ ~exists[s]) =>
              /\ pc'[s] = "Terminated"
              /\ exc'[s] = <<>>
              /\ nsent'[s] = nsent[s] /\ response'[s] = response[s]
              /\ nreq'[s] = nreq[s] /\ request'[s] = request[s]
              /\ jobs' = jobs
        /\ (pc[s] = "ClearReaction" /\ pc'[s] # "ClearReaction" /\ exists[s]
               /\ ~response'[s].deleted) =>
              LET code == get_code(content[s], cmd[s]) IN
              /\ \A k \in 1..Len(exc'[s]) : exc'[s][k] \notin {"HTTPException", "NotFound"}
              /\ nsent'[s] = nsent[s]
              /\ (code # Nothing /\ prepare_input(code[1]) # <<>>) =>
                    /\ pc'[s] = "AwaitingResult"
                    /\ nreq'[s] = nreq[s] + 1
                    /\ request'[s].input = prepare_input(code[1])]_vars

C16_Witness ==
    \E s, t \in Sessions :
        /\ pc[s] = "Terminated" /\ how[s] = "not_found" /\ ~exists[s]
        /\ exc[s] = <<>> /\ nreq[s] = 1 /\ nsent[s] = 1
        /\ pc[t] = "AwaitingResult" /\ nreq[t] = 2 /\ exists[t]
        /\ response[t].kind = "result" /\ ~response[t].deleted

\* the ways the loop of run_eval ends at its break (line 348)
LoopEnds == {"edit_timeout", "reaction_timeout", "no_code", "not_found"}

\* C17 (as claimed): every session that passed the registry check is
\* eventually over with its loop ended at the break: by the timeout of the edit
\* wait or of the reaction wait, or because continue_eval returned no code.
\* A session whose request the execution service failed counts as over too.
C17_Terminates ==
    \A s \in Sessions :
        (pc[s] = "AwaitingResult") ~>
            \/ pc[s] = "Terminated" /\ how[s] \in LoopEnds
            \/ pc[s] = "Raised" /\ exc[s][1] = "ClientResponseError"

\* C18 (as claimed): when an attempt of a session ends (post_eval returned or
\* raised) the user's entry is in self.jobs for the finally clause to delete,
\* and a session that sent its response goes on to the edit wait.
C18_ReleaseNeverFails ==
    [][\A s \in Sessions :
        (pc[s] = "AwaitingResult" /\ pc'[s] # "AwaitingResult") =>
            /\ author[s] \in DOMAIN jobs
            /\ nsent'[s] = nsent[s] + 1 => pc'[s] = "AwaitingEdit"]_vars

\* C19 (as claimed): every request of a session started by the timeit command
\* carries a code wrapped in TIMEIT_EVAL_WRAPPER and the arguments -m timeit,
\* in the first round and in every re-evaluation.
C19_TimeitAlwaysWrapped ==
    \A s \in Sessions :
        (cmd[s] = "timeit" /\ nreq[s] > 0) =>
            /\ request[s].args = Some(<<"-m", "timeit">>)
            /\ \E n \in 0..Len(request[s].input) :
                  request[s].input = TIMEIT_EVAL_WRAPPER(SubSeq(request[s].input, 2, n))

(***************************************************************************)
(* Properties of prepare_input (SpecPrepare)                               *)
(***************************************************************************)
PrepareInputReturned == p_pc = "prepare_input"

\* C14 (as claimed): for a text with two fenced blocks, whatever stands
\* around them, prepare_input returns the contents of the two blocks joined by
\* one newline (the shared indentation removed, as for every result).
C14_FencedBlocksJoined ==
    PrepareInputReturned =>
        \A p0, p1, p2 \in Prose, c1, c2 \in Contents :
            p_text = TwoBlocks(p0, c1, p1, c2, p2) => p_ret = dedent(c1 \o <<NL>> \o c2)

\* the text holds no backtick
NoDelimiter(t) == \A k \in 1..Len(t) : t[k] # BT

\* the text without its leading blank lines (lines of spaces only, each ended
\* by a newline) and without its trailing whitespace
Stripped(t) ==
    LET starts == {s \in 1..(Len(t) + 1) :
                      /\ \A k \in 1..(s - 1) : t[k] \in {" ", NL}
                      /\ s = 1 \/ t[s - 1] = NL}
        first == SetMax(starts)
        ends == {e \in (first - 1)..Len(t) : \A k \in (e + 1)..Len(t) : t[k] \in {" ", NL}}
    IN  SubSeq(t, first, SetMin(ends))

\* C15 (as claimed): for a text without delimiters prepare_input returns the
\* text with its leading blank lines and trailing whitespace removed, otherwise
\* unchanged, and returns the same when applied to its own result.
C15_StrippedOnly ==
    (p_pc \in {"prepare_input", "again"} /\ NoDelimiter(p_text)) => p_ret = Stripped(p_text)

\* C15 (amended): for a text without delimiters prepare_input returns the text
\* with its leading blank lines and trailing whitespace removed and then
\* dedented: the indentation shared by its lines is removed and the lines of
\* whitespace only are emptied; applied to its own result it returns the same.
C15_StrippedAndDedented ==
    (p_pc \in {"prepare_input", "again"} /\ NoDelimiter(p_text)) =>
        p_ret = dedent(Stripped(p_text))

C15_Witness ==
    /\ p_pc = "again" /\ NoDelimiter(p_text)
    /\ Len(p_text) = MaxTextLen /\ p_text[1] = NL /\ p_text[Len(p_text)] = " "
    /\ p_ret # Stripped(p_text)
    /\ Len(p_ret) >= 3

(***************************************************************************)
(* Properties of the format functions (SpecFormat)                         *)
(***************************************************************************)
Markers == {MarkLongLines, MarkLines, MarkLong}

\* the body ends with a line break and one truncation marker
HasMarker(body) ==
    /\ Len(body) >= 2
    /\ body[Len(body)].c \in Markers /\ body[Len(body)].n = 1
    /\ body[Len(body) - 1].c = NL

\* the body without its final marker line
MarkerFree(body) ==
    IF HasMarker(body)
    THEN Norm(SubSeq(body, 1, Len(body) - 2) \o <<Run(NL, body[Len(body) - 1].n - 1)>>)
    ELSE body

\* the lines of the body that carry a line number (no output holds a digit)
NumberedLines(body) == Cardinality({i \in 1..Len(body) : body[i].c = DIGIT})

\* the number of lines of a text
LineCount(s) == IF s = <<>> THEN 0 ELSE Count(s, NL) + 1

FormatOutputReturned == f_pc = "format_output"

\* C9 (as claimed): whenever the output, trailing newlines aside, exceeds 10
\* lines or 1000 characters, format_output returns a body that ends with a
\* truncation marker and a paste link that is not None.  Stated for the outputs
\* with no escape sequence and a paste service that answers.
C9_TruncatedWhenOver ==
    (/\ FormatOutputReturned
     /\ f_svc # None
     /\ ~ESCAPE_REGEX(NeutraliseMentions(RStrip(f_stdout, NL)))
     /\ \/ LineCount(RStrip(f_stdout, NL)) > 10
        \/ StrLen(RStrip(f_stdout, NL)) > 1000)
    => (HasMarker(f_ret.output) /\ f_ret.paste_link # None)

\* C10: the body format_output returns is at most 1000 characters, followed by
\* at most one truncation-marker line, and shows at most 11 numbered lines.
C10_BodyBounded ==
    FormatOutputReturned =>
        LET text == MarkerFree(f_ret.output) IN
        /\ StrLen(text) <= 1000
        /\ \A i \in 1..Len(text) : text[i].c \notin Markers
        /\ NumberedLines(f_ret.output) <= 11

\* C10 witness: a short output (under 1000 characters, at most 11 lines) whose
\* line numbers push it over the limit: the body is cut at 1000 characters.
C10_Witness ==
    /\ FormatOutputReturned
    /\ StrLen(f_stdout) < 1000 /\ Count(f_stdout, NL) \in 1..10
    /\ HasMarker(f_ret.output)
    /\ f_ret.output[Len(f_ret.output)].c = MarkLong
    /\ StrLen(MarkerFree(f_ret.output)) = 1000

\* the text holds 3 or more consecutive characters among backtick, U+202E, U+200B
HasEscapeRun(s) ==
    \E i \in 1..Len(s) : \E j \in i..Len(s) :
        /\ \A k \in i..j : s[k].c \in {BT, RLO, ZWSP}
        /\ SumN(s, i, j) >= 3

\* C11: for a stdout that holds an escape run, format_output returns the fixed
\* warning, whatever the length, the line count and the mention sigils; what
\* it uploads is the output as it was (trailing newlines aside) before the
\* mentions were neutralised, and the link is the paste service's answer; an
\* output over MAX_PASTE_LEN is not uploaded.
C11_EscapeWarning ==
    (FormatOutputReturned /\ HasEscapeRun(f_stdout)) =>
        LET original == RStrip(f_stdout, NL) IN
        /\ f_ret.output = Str(EscapeWarning)
        /\ NumberedLines(f_ret.output) = 0 /\ ~HasMarker(f_ret.output)
        /\ IF StrLen(original) > MAX_PASTE_LEN
           THEN f_ret.sent = <<>> /\ f_ret.paste_link = TooLongToUpload
           ELSE f_ret.sent = <<original>> /\ f_ret.paste_link = f_svc

C11_Witness ==
    /\ FormatOutputReturned /\ HasEscapeRun(f_stdout)
    /\ \E i \in 1..Len(f_stdout) : f_stdout[i].c = BT /\ f_stdout[i].n = 3
    /\ NeutraliseMentions(RStrip(f_stdout, NL)) # RStrip(f_stdout, NL)
    /\ f_ret.output = Str(EscapeWarning)
    /\ f_ret.sent = <<RStrip(f_stdout, NL)>>

\* C13: the paste service is never given a text of more than MAX_PASTE_LEN
\* characters: for an output that is longer (trailing newlines aside),
\* format_output returns TooLongToUpload as the link and uploads nothing; an
\* output of exactly MAX_PASTE_LEN characters is uploaded.
C13_NoLongUpload ==
    FormatOutputReturned =>
        /\ \A i \in 1..Len(f_ret.sent) : StrLen(f_ret.sent[i]) <= MAX_PASTE_LEN
        /\ StrLen(RStrip(f_stdout, NL)) > MAX_PASTE_LEN =>
              (f_ret.paste_link = TooLongToUpload /\ f_ret.sent = <<>>)

C13_Witness ==
    /\ FormatOutputReturned
    /\ StrLen(RStrip(f_stdout, NL)) = MAX_PASTE_LEN + 1
    /\ ~HasEscapeRun(f_stdout) /\ HasMarker(f_ret.output)
    /\ f_ret.paste_link = TooLongToUpload /\ f_ret.sent = <<>>

(***************************************************************************)
(* Properties of send_eval (SpecSend)                                      *)
(***************************************************************************)
\* send_eval has sent the message for the results
ResultSent == r_pc \in Commands /\ r_ret.kind = "result"

\* the stdout is empty or whitespace only
IsBlank(s) == \A i \in 1..Len(s) : s[i].c \in {" ", NL}

\* C12 (as claimed): for a result whose returncode is absent or 255 the emoji
\* of the response is :x:, whatever the stdout.
C12_FailureMark ==
    (ResultSent /\ r_results.returncode \in {Nothing, Some(255)}) => r_ret.icon = ":x:"

\* C12 (amended): for a result whose returncode is absent or 255 the emoji of
\* the response is :x: when the stdout holds a character that is not
\* whitespace, and :warning: when the stdout is empty or whitespace only.
C12_FailureMarkOrWarning ==
    (ResultSent /\ r_results.returncode \in {Nothing, Some(255)}) =>
        r_ret.icon = IF IsBlank(r_results.stdout) THEN ":warning:" ELSE ":x:"

C12_Witness ==
    /\ ResultSent /\ r_results.returncode = Nothing
    /\ r_results.stdout # <<>> /\ IsBlank(r_results.stdout)
    /\ r_ret.icon = ":warning:"
    /\ r_ret.msg.text = "Your eval job has failed"

\* the body is within what format_output lets through: at most 1000 characters
\* and 11 lines before the truncation marker, and no run of three escape
\* characters
WithinFormatterBound(body) ==
    /\ StrLen(MarkerFree(body)) <= 1000
    /\ LineCount(MarkerFree(body)) <= 11
    /\ ~HasEscapeRun(body)

\* C20 (as claimed): the body of every response is what the format function
\* lets through, for every result, those with an absent returncode included: it
\* is within the formatter's length bound and holds no run of three or more
\* escape characters.
C20_BodyFormatted ==
    ResultSent => WithinFormatterBound(r_ret.output)

====
